---------------------------- MODULE Spec2Model ----------------------------
(***************************************************************************)
(* odos-sdk: the HTTP transport layer of src/client.rs                     *)
(* (OdosHttpClient::execute_with_retry, should_retry, extract_retry_after, *)
(* parse_error_response), the error taxonomy of src/error.rs and the       *)
(* error-code table of src/error_code.rs.                                  *)
(*                                                                         *)
(* Time is counted in ticks of 250 ms.  Two specifications are given:      *)
(*   Spec          one execute_with_retry call, from the construction of   *)
(*                 the backoff state to the returned Result;               *)
(*   ClassifySpec  the classification of one non-2xx response (the pure    *)
(*                 part of the 429 and non-429 branches), over a wide set  *)
(*                 of bodies and Retry-After headers.                      *)
(***************************************************************************)
EXTENDS Integers, Sequences, FiniteSets, TLC

VARIABLES
    config,            \* ClientConfig: timeout and retry_config (immutable)
    pc,                \* position of the call: "loop", "inflight", "sleeping", "done"
    attempt,           \* `attempt` local of execute_with_retry
    current_interval,  \* ExponentialBackoff.current_interval, in ticks
    elapsed,           \* ticks since ExponentialBackoff.start_time, capped above the budget
    finished,          \* history: number of attempts whose outcome was received
    failed,            \* history: the tags of the failed attempts so far (a set)
    last,              \* history: the tag of the most recent outcome
    built,             \* history: number of request_builder_fn() invocations
    sent,              \* history: number of requests handed to client.execute
    sleeps,            \* history: every sleep started, in order: [kind, delay]
    pending_delay,     \* the delay of the sleep in progress
    last_error,        \* `last_error` (`error`) local of the loop body, NoError out of its scope
    result,            \* the Result returned by the call, once pc = "done"
    cl_in,             \* ClassifySpec: the response being classified
    cl_out,            \* ClassifySpec: the error it was classified to
    calls,             \* ConcSpec: the local variables of each concurrent call
    suggested          \* ErrorSpec: what suggested_retry_delay returned for cl_out

vars == << config, pc, attempt, current_interval, elapsed, finished, failed, last, built, sent,
           sleeps, pending_delay, last_error, result, cl_in, cl_out,
           calls, suggested >>

-----------------------------------------------------------------------------
(* Bounds of the model *)

\* largest RetryConfig.max_retries explored
MaxRetries == 3

\* largest ClientConfig.timeout explored, in ticks
MaxTimeout == 6

\* largest latency of an answered request, in ticks
MaxLatency == 1

\* largest Retry-After value, in seconds, enumerated digit by digit
MaxRetryAfterSecs == 2

-----------------------------------------------------------------------------
(* Option<T> *)

None == [some |-> FALSE, val |-> <<>>]

Some(v) == [some |-> TRUE, val |-> <<v>>]

Unwrap(o) == o.val[1]

Min(a, b) == IF a <= b THEN a ELSE b

-----------------------------------------------------------------------------
(* OdosErrorCode (src/error_code.rs) *)

Known(v) == [variant |-> v, n |-> 0]

Unknown(code) == [variant |-> "Unknown", n |-> code]

\* impl From<u16> for OdosErrorCode
FromU16(code) ==
    CASE code = 1000 -> Known("ApiError")
      [] code = 2000 -> Known("NoViablePath")
      [] code = 2400 -> Known("AlgoValidationError")
      [] code = 2997 -> Known("AlgoConnectionError")
      [] code = 2998 -> Known("AlgoTimeout")
      [] code = 2999 -> Known("AlgoInternal")
      [] code = 3000 -> Known("InternalServiceError")
      [] code = 3100 -> Known("ConfigInternal")
      [] code = 3101 -> Known("ConfigConnectionError")
      [] code = 3102 -> Known("ConfigTimeout")
      [] code = 3110 -> Known("TxnAssemblyInternal")
      [] code = 3111 -> Known("TxnAssemblyConnectionError")
      [] code = 3112 -> Known("TxnAssemblyTimeout")
      [] code = 3120 -> Known("ChainDataInternal")
      [] code = 3121 -> Known("ChainDataConnectionError")
      [] code = 3122 -> Known("ChainDataTimeout")
      [] code = 3130 -> Known("PricingInternal")
      [] code = 3131 -> Known("PricingConnectionError")
      [] code = 3132 -> Known("PricingTimeout")
      [] code = 3140 -> Known("GasInternal")
      [] code = 3141 -> Known("GasConnectionError")
      [] code = 3142 -> Known("GasTimeout")
      [] code = 3143 -> Known("GasUnavailable")
      [] code = 4000 -> Known("InvalidRequest")
      [] code = 4001 -> Known("InvalidChainId")
      [] code = 4002 -> Known("InvalidInputTokens")
      [] code = 4003 -> Known("InvalidOutputTokens")
      [] code = 4004 -> Known("InvalidUserAddr")
      [] code = 4005 -> Known("BlockedUserAddr")
      [] code = 4006 -> Known("TooSlippery")
      [] code = 4007 -> Known("SameInputOutput")
      [] code = 4008 -> Known("MultiZapOutput")
      [] code = 4009 -> Known("InvalidTokenCount")
      [] code = 4010 -> Known("InvalidTokenAddr")
      [] code = 4011 -> Known("NonIntegerTokenAmount")
      [] code = 4012 -> Known("NegativeTokenAmount")
      [] code = 4013 -> Known("SameInputOutputTokens")
      [] code = 4014 -> Known("TokenBlacklisted")
      [] code = 4015 -> Known("InvalidTokenProportions")
      [] code = 4016 -> Known("TokenRoutingUnavailable")
      [] code = 4017 -> Known("InvalidReferralCode")
      [] code = 4018 -> Known("InvalidTokenAmount")
      [] code = 4019 -> Known("NonStringTokenAmount")
      [] code = 4100 -> Known("InvalidAssemblyRequest")
      [] code = 4101 -> Known("InvalidAssemblyUserAddr")
      [] code = 4102 -> Known("InvalidReceiverAddr")
      [] code = 4200 -> Known("InvalidSwapRequest")
      [] code = 4201 -> Known("UserAddrRequired")
      [] code = 5000 -> Known("InternalError")
      [] code = 5001 -> Known("SwapUnavailable")
      [] code = 5002 -> Known("PriceCheckFailure")
      [] code = 5003 -> Known("DefaultGasFailure")
      [] OTHER -> Unknown(code)

\* OdosErrorCode::code
Code(c) ==
    CASE c.variant = "ApiError" -> 1000
      [] c.variant = "NoViablePath" -> 2000
      [] c.variant = "AlgoValidationError" -> 2400
      [] c.variant = "AlgoConnectionError" -> 2997
      [] c.variant = "AlgoTimeout" -> 2998
      [] c.variant = "AlgoInternal" -> 2999
      [] c.variant = "InternalServiceError" -> 3000
      [] c.variant = "ConfigInternal" -> 3100
      [] c.variant = "ConfigConnectionError" -> 3101
      [] c.variant = "ConfigTimeout" -> 3102
      [] c.variant = "TxnAssemblyInternal" -> 3110
      [] c.variant = "TxnAssemblyConnectionError" -> 3111
      [] c.variant = "TxnAssemblyTimeout" -> 3112
      [] c.variant = "ChainDataInternal" -> 3120
      [] c.variant = "ChainDataConnectionError" -> 3121
      [] c.variant = "ChainDataTimeout" -> 3122
      [] c.variant = "PricingInternal" -> 3130
      [] c.variant = "PricingConnectionError" -> 3131
      [] c.variant = "PricingTimeout" -> 3132
      [] c.variant = "GasInternal" -> 3140
      [] c.variant = "GasConnectionError" -> 3141
      [] c.variant = "GasTimeout" -> 3142
      [] c.variant = "GasUnavailable" -> 3143
      [] c.variant = "InvalidRequest" -> 4000
      [] c.variant = "InvalidChainId" -> 4001
      [] c.variant = "InvalidInputTokens" -> 4002
      [] c.variant = "InvalidOutputTokens" -> 4003
      [] c.variant = "InvalidUserAddr" -> 4004
      [] c.variant = "BlockedUserAddr" -> 4005
      [] c.variant = "TooSlippery" -> 4006
      [] c.variant = "SameInputOutput" -> 4007
      [] c.variant = "MultiZapOutput" -> 4008
      [] c.variant = "InvalidTokenCount" -> 4009
      [] c.variant = "InvalidTokenAddr" -> 4010
      [] c.variant = "NonIntegerTokenAmount" -> 4011
      [] c.variant = "NegativeTokenAmount" -> 4012
      [] c.variant = "SameInputOutputTokens" -> 4013
      [] c.variant = "TokenBlacklisted" -> 4014
      [] c.variant = "InvalidTokenProportions" -> 4015
      [] c.variant = "TokenRoutingUnavailable" -> 4016
      [] c.variant = "InvalidReferralCode" -> 4017
      [] c.variant = "InvalidTokenAmount" -> 4018
      [] c.variant = "NonStringTokenAmount" -> 4019
      [] c.variant = "InvalidAssemblyRequest" -> 4100
      [] c.variant = "InvalidAssemblyUserAddr" -> 4101
      [] c.variant = "InvalidReceiverAddr" -> 4102
      [] c.variant = "InvalidSwapRequest" -> 4200
      [] c.variant = "UserAddrRequired" -> 4201
      [] c.variant = "InternalError" -> 5000
      [] c.variant = "SwapUnavailable" -> 5001
      [] c.variant = "PriceCheckFailure" -> 5002
      [] c.variant = "DefaultGasFailure" -> 5003
      [] OTHER -> c.n

\* the codes OdosErrorCode::code gives to the variants other than Unknown
TableCodes ==
    { 1000, 2000, 2400, 2997, 2998, 2999, 3000, 3100, 3101, 3102,
      3110, 3111, 3112, 3120, 3121, 3122, 3130, 3131, 3132, 3140,
      3141, 3142, 3143, 4000, 4001, 4002, 4003, 4004, 4005, 4006,
      4007, 4008, 4009, 4010, 4011, 4012, 4013, 4014, 4015, 4016,
      4017, 4018, 4019, 4100, 4101, 4102, 4200, 4201, 5000, 5001,
      5002, 5003 }

\* OdosErrorCode::is_timeout
CodeIsTimeout(c) ==
    c.variant \in { "AlgoTimeout", "ConfigTimeout", "TxnAssemblyTimeout",
                    "ChainDataTimeout", "PricingTimeout", "GasTimeout" }

\* OdosErrorCode::is_connection_error
CodeIsConnectionError(c) ==
    c.variant \in { "AlgoConnectionError", "ConfigConnectionError",
                    "TxnAssemblyConnectionError", "ChainDataConnectionError",
                    "PricingConnectionError", "GasConnectionError" }

\* OdosErrorCode::is_retryable
CodeIsRetryable(c) ==
    \/ CodeIsTimeout(c)
    \/ CodeIsConnectionError(c)
    \/ c.variant \in { "AlgoInternal", "ConfigInternal", "TxnAssemblyInternal",
                       "ChainDataInternal", "PricingInternal", "GasInternal",
                       "GasUnavailable", "InternalServiceError", "InternalError" }

-----------------------------------------------------------------------------
(* Retry-After header: extract_retry_after (src/client.rs)                 *)
(* A header value is a sequence of bytes, each written as a one-character  *)
(* string; "xFF" stands for a byte outside visible ASCII.  A u64 is kept   *)
(* as its decimal digits without leading zeros, so that the 64-bit width   *)
(* of str::parse::<u64> is kept.                                           *)

DigitChars == { "0", "1", "2", "3", "4", "5", "6", "7", "8", "9" }

DigitVal(ch) ==
    CASE ch = "0" -> 0 [] ch = "1" -> 1 [] ch = "2" -> 2 [] ch = "3" -> 3
      [] ch = "4" -> 4 [] ch = "5" -> 5 [] ch = "6" -> 6 [] ch = "7" -> 7
      [] ch = "8" -> 8 [] ch = "9" -> 9

DigitChar(d) ==
    CASE d = 0 -> "0" [] d = 1 -> "1" [] d = 2 -> "2" [] d = 3 -> "3"
      [] d = 4 -> "4" [] d = 5 -> "5" [] d = 6 -> "6" [] d = 7 -> "7"
      [] d = 8 -> "8" [] d = 9 -> "9"

VisibleAscii == DigitChars \cup { "+", "-", ".", " ", "a" }

\* u64::MAX = 18446744073709551615
U64MaxDigits == << 1, 8, 4, 4, 6, 7, 4, 4, 0, 7, 3, 7, 0, 9, 5, 5, 1, 6, 1, 5 >>

\* a > b for two numbers given by their digits without leading zeros
RECURSIVE LexGreater(_, _)
LexGreater(a, b) ==
    IF a = <<>> THEN FALSE
    ELSE IF Head(a) # Head(b) THEN Head(a) > Head(b)
    ELSE LexGreater(Tail(a), Tail(b))

DigitsGreater(a, b) ==
    \/ Len(a) > Len(b)
    \/ Len(a) = Len(b) /\ LexGreater(a, b)

\* acc * 10 + d
PushDigit(acc, d) == IF acc = << 0 >> THEN << d >> ELSE Append(acc, d)

\* the digit loop of u64::from_str: checked_mul(10) then checked_add(digit)
RECURSIVE ParseDigits(_, _)
ParseDigits(chars, acc) ==
    IF chars = <<>> THEN Some(acc)
    ELSE IF Head(chars) \notin DigitChars THEN None
    ELSE LET next == PushDigit(acc, DigitVal(Head(chars)))
         IN  IF DigitsGreater(next, U64MaxDigits) THEN None
             ELSE ParseDigits(Tail(chars), next)

\* str::parse::<u64>: an optional leading '+', then at least one digit
ParseU64(chars) ==
    IF chars = <<>> THEN None
    ELSE IF Head(chars) \in { "+", "-" } /\ Len(chars) = 1 THEN None
    ELSE IF Head(chars) = "+" THEN ParseDigits(Tail(chars), << 0 >>)
    ELSE ParseDigits(chars, << 0 >>)

\* HeaderValue::to_str: fails on a byte outside visible ASCII
ToStr(bytes) ==
    IF \A i \in 1..Len(bytes) : bytes[i] \in VisibleAscii THEN Some(bytes) ELSE None

NoHeader == [present |-> FALSE, bytes |-> <<>>]

Header(bytes) == [present |-> TRUE, bytes |-> bytes]

\* an extract_retry_after that drops a delay of zero seconds
extract_retry_after_dropping_zero(header) ==
    IF ~header.present THEN None
    ELSE LET s == ToStr(header.bytes)
         IN  IF ~s.some THEN None
             ELSE IF ParseU64(Unwrap(s)) = Some(<< 0 >>) THEN None
             ELSE ParseU64(Unwrap(s))

\* extract_retry_after: Option<Duration>, the Duration in whole seconds
extract_retry_after(header) ==
    IF ~header.present THEN None
    ELSE LET s == ToStr(header.bytes)
         IN  IF ~s.some THEN None
             ELSE ParseU64(Unwrap(s))

\* Duration::is_zero
IsZero(secs) == secs = << 0 >>

-----------------------------------------------------------------------------
(* Response bodies: parse_error_response (src/client.rs)                   *)
(* A body carries its text and, when the text is JSON, the document it     *)
(* denotes.  A JSON value is [t, s, n]: its type, its string, its number.  *)

JStr(s) == [t |-> "string", s |-> s, n |-> 0]

JInt(n) == [t |-> "int", s |-> "", n |-> n]

JFloat == [t |-> "float", s |-> "", n |-> 0]

JNull == [t |-> "null", s |-> "", n |-> 0]

JAbsent == [t |-> "absent", s |-> "", n |-> 0]

Doc(detail, traceId, errorCode) ==
    [detail |-> detail, traceId |-> traceId, errorCode |-> errorCode]

NoDoc == Doc(JAbsent, JAbsent, JAbsent)

\* a body whose text is not a JSON object
TextBody(text) == [readable |-> TRUE, json |-> FALSE, raw |-> text, doc |-> NoDoc]

\* a body whose text is the JSON object doc
JsonBody(doc) == [readable |-> TRUE, json |-> TRUE, raw |-> ToString(doc), doc |-> doc]

\* a body whose read fails (Response::text returns Err)
UnreadableBody == [readable |-> FALSE, json |-> FALSE, raw |-> "", doc |-> NoDoc]

\* Uuid::parse_str on the trace ids used here: the hyphenated, upper-case and
\* simple (no hyphen) forms denote the same Uuid, written in its canonical form
ParseUuid(s) ==
    CASE s = "10becdc8-a021-4491-8201-a17b657204e0" -> Some("10becdc8-a021-4491-8201-a17b657204e0")
      [] s = "10BECDC8-A021-4491-8201-A17B657204E0" -> Some("10becdc8-a021-4491-8201-a17b657204e0")
      [] s = "10becdc8a02144918201a17b657204e0" -> Some("10becdc8-a021-4491-8201-a17b657204e0")
      [] s = "a0b1c2d3-e4f5-6789-0abc-def123456789" -> Some("a0b1c2d3-e4f5-6789-0abc-def123456789")
      [] OTHER -> None

U16Max == 65535

\* serde_json::from_str::<OdosApiErrorResponse>: detail a string, traceId a
\* string that is a Uuid, errorCode an integer that fits u16
Deserialize(body) ==
    IF /\ body.json
       /\ body.doc.detail.t = "string"
       /\ body.doc.traceId.t = "string"
       /\ ParseUuid(body.doc.traceId.s).some
       /\ body.doc.errorCode.t = "int"
       /\ body.doc.errorCode.n >= 0
       /\ body.doc.errorCode.n <= U16Max
    THEN Some([detail |-> body.doc.detail.s,
               trace_id |-> Unwrap(ParseUuid(body.doc.traceId.s)),
               error_code |-> body.doc.errorCode.n])
    ELSE None

\* ParsedErrorResponse
Parsed(message, code, trace_id) ==
    [message |-> message, code |-> code, trace_id |-> trace_id]

\* a parse_error_response that keeps the raw body as the message of a
\* structured body
parse_error_response_keeping_raw(body) ==
    IF ~body.readable
    THEN Parsed("Failed to read response body", Unknown(0), None)
    ELSE LET r == Deserialize(body)
         IN  IF r.some
             THEN Parsed(body.raw, FromU16(Unwrap(r).error_code),
                         Some(Unwrap(r).trace_id))
             ELSE Parsed(body.raw, Unknown(0), None)

\* a parse_error_response whose fallback replaces the body by a fixed message
parse_error_response_fixed_fallback(body) ==
    IF ~body.readable
    THEN Parsed("Failed to read response body", Unknown(0), None)
    ELSE LET r == Deserialize(body)
         IN  IF r.some
             THEN Parsed(Unwrap(r).detail, FromU16(Unwrap(r).error_code),
                         Some(Unwrap(r).trace_id))
             ELSE Parsed("Unknown error", Unknown(0), None)

\* parse_error_response
parse_error_response(body) ==
    IF ~body.readable
    THEN Parsed("Failed to read response body", Unknown(0), None)
    ELSE LET r == Deserialize(body)
         IN  IF r.some
             THEN Parsed(Unwrap(r).detail, FromU16(Unwrap(r).error_code),
                         Some(Unwrap(r).trace_id))
             ELSE Parsed(body.raw, Unknown(0), None)

-----------------------------------------------------------------------------
(* OdosError (src/error.rs) *)

\* a reqwest::Error: its kind and what its source chain holds
ReqwestError(kind, timeout, connect) ==
    [kind |-> kind, timeout |-> timeout, connect |-> connect]

NoReqwestError == ReqwestError("none", FALSE, FALSE)

\* the errors Client::execute can return
TransportErrors ==
    { ReqwestError("Request", TRUE, FALSE),    \* the client's own timeout
      ReqwestError("Request", FALSE, TRUE),    \* connection refused, DNS, TLS
      ReqwestError("Request", FALSE, FALSE),   \* any other send failure
      ReqwestError("Redirect", FALSE, FALSE) } \* redirect loop or limit

\* the error RequestBuilder::build returns
BuilderError == ReqwestError("Builder", FALSE, FALSE)

OdosError(variant, status, message, code, trace_id, retry_after, source) ==
    [variant |-> variant, status |-> status, message |-> message, code |-> code,
     trace_id |-> trace_id, retry_after |-> retry_after, source |-> source]

\* OdosError::Http(e)
Http(e) == OdosError("Http", 0, "", Unknown(0), None, None, e)

\* OdosError::api_error_with_code
api_error_with_code(status, message, code, trace_id) ==
    OdosError("Api", status, message, code, trace_id, None, NoReqwestError)

\* OdosError::timeout_error
timeout_error(message) ==
    OdosError("Timeout", 0, message, Unknown(0), None, None, NoReqwestError)

\* OdosError::rate_limit_error_with_retry_after_and_trace
rate_limit_error_with_retry_after_and_trace(message, retry_after, code, trace_id) ==
    OdosError("RateLimit", 0, message, code, trace_id, retry_after, NoReqwestError)

\* the variants of OdosError that carry no status, code or retry_after
PlainVariants ==
    { "Json", "Hex", "InvalidInput", "MissingData", "UnsupportedChain", "Contract",
      "TransactionAssembly", "QuoteRequest", "Configuration", "Internal" }

\* OdosError::invalid_input, missing_data, internal_error and the like
plain_error(variant, message) ==
    OdosError(variant, 0, message, Unknown(0), None, None, NoReqwestError)

\* OdosError::category
category(e) ==
    CASE e.variant = "Http" -> "http"
      [] e.variant = "Api" -> "api"
      [] e.variant = "Json" -> "json"
      [] e.variant = "Hex" -> "hex"
      [] e.variant = "InvalidInput" -> "invalid_input"
      [] e.variant = "MissingData" -> "missing_data"
      [] e.variant = "UnsupportedChain" -> "unsupported_chain"
      [] e.variant = "Contract" -> "contract"
      [] e.variant = "TransactionAssembly" -> "transaction_assembly"
      [] e.variant = "QuoteRequest" -> "quote_request"
      [] e.variant = "Configuration" -> "configuration"
      [] e.variant = "Timeout" -> "timeout"
      [] e.variant = "RateLimit" -> "rate_limit"
      [] e.variant = "Internal" -> "internal"

\* an is_success that accepts the redirection statuses as well
is_success_below_400(status) == status >= 200 /\ status < 400

\* StatusCode::is_success, is_client_error, is_server_error
is_success(status) == status >= 200 /\ status < 300

is_client_error(status) == status >= 400 /\ status < 500

is_server_error(status) == status >= 500 /\ status < 600

\* an is_retryable that decides every api error by its status alone
is_retryable_by_status(e) ==
    CASE e.variant = "Http" ->
            e.source.timeout \/ e.source.connect \/ e.source.kind = "Request"
      [] e.variant = "Api" -> e.status \in { 500, 502, 503, 504 }
      [] e.variant = "Timeout" -> TRUE
      [] e.variant = "RateLimit" -> FALSE

\* an is_retryable whose fallback for an unknown code accepts every 5xx status
is_retryable_any_server_error(e) ==
    CASE e.variant = "Http" ->
            e.source.timeout \/ e.source.connect \/ e.source.kind = "Request"
      [] e.variant = "Api" ->
            IF e.code.variant = "Unknown"
            THEN is_server_error(e.status)
            ELSE CodeIsRetryable(e.code)
      [] e.variant = "Timeout" -> TRUE
      [] e.variant = "RateLimit" -> FALSE

\* OdosError::is_retryable
is_retryable(e) ==
    CASE e.variant = "Http" ->
            e.source.timeout \/ e.source.connect \/ e.source.kind = "Request"
      [] e.variant = "Api" ->
            IF e.code.variant = "Unknown"
            THEN e.status \in { 500, 502, 503, 504 }
            ELSE CodeIsRetryable(e.code)
      [] e.variant = "Timeout" -> TRUE
      [] e.variant = "RateLimit" -> FALSE
      [] e.variant \in PlainVariants -> FALSE

\* a Duration: whole seconds (decimal digits, as a Retry-After carries them)
\* and milliseconds
Duration(secs, millis) == [secs |-> secs, millis |-> millis]

\* OdosError::suggested_retry_delay
suggested_retry_delay(e) ==
    CASE e.variant = "RateLimit" ->
            Some(IF e.retry_after.some THEN Duration(Unwrap(e.retry_after), 0)
                 ELSE Duration(<< 6, 0 >>, 0))
      [] e.variant = "Timeout" -> Some(Duration(<< 1 >>, 0))
      [] e.variant = "Api" /\ is_server_error(e.status) -> Some(Duration(<< 2 >>, 0))
      [] e.variant = "Http" ->
            IF e.source.timeout THEN Some(Duration(<< 1 >>, 0))
            ELSE IF e.source.connect \/ e.source.kind = "Request"
                 THEN Some(Duration(<< 0 >>, 500))
                 ELSE None
      [] OTHER -> None

-----------------------------------------------------------------------------
(* RetryConfig and ClientConfig (src/client.rs) *)

\* retry_predicate: None, or one of three function pointers
Predicates == { "none", "always_true", "always_false", "is_retryable" }

ApplyPredicate(p, e) ==
    CASE p = "always_true" -> TRUE
      [] p = "always_false" -> FALSE
      [] p = "is_retryable" -> is_retryable(e)

\* the timeouts explored, in ticks
Timeouts == { 1, MaxTimeout }

Configs ==
    [ timeout : Timeouts,
      max_retries : 0..MaxRetries,
      retry_server_errors : BOOLEAN,
      retry_predicate : Predicates ]

\* a should_retry that never consults retry_predicate
should_retry_without_predicate(cfg, error, attempts) ==
    IF attempts >= cfg.max_retries THEN FALSE
    ELSE CASE error.variant = "RateLimit" -> FALSE
           [] error.variant = "Api" /\ is_client_error(error.status) -> FALSE
           [] error.variant = "Api" /\ is_server_error(error.status) ->
                 cfg.retry_server_errors
           [] error.variant = "Http" ->
                 \/ error.source.timeout
                 \/ error.source.connect
                 \/ error.source.kind = "Request"
           [] error.variant = "Timeout" -> TRUE
           [] OTHER -> FALSE

\* a should_retry that treats a 4xx api error as it treats a 5xx one
should_retry_client_as_server(cfg, error, attempts) ==
    IF attempts >= cfg.max_retries THEN FALSE
    ELSE IF cfg.retry_predicate # "none" THEN ApplyPredicate(cfg.retry_predicate, error)
    ELSE CASE error.variant = "RateLimit" -> FALSE
           [] error.variant = "Api" /\ is_client_error(error.status) ->
                 cfg.retry_server_errors
           [] error.variant = "Api" /\ is_server_error(error.status) ->
                 cfg.retry_server_errors
           [] error.variant = "Http" ->
                 \/ error.source.timeout
                 \/ error.source.connect
                 \/ error.source.kind = "Request"
           [] error.variant = "Timeout" -> TRUE
           [] OTHER -> FALSE

\* a should_retry without the attempt-limit check
should_retry_without_limit(cfg, error, attempts) ==
    IF cfg.retry_predicate # "none" THEN ApplyPredicate(cfg.retry_predicate, error)
    ELSE CASE error.variant = "RateLimit" -> FALSE
           [] error.variant = "Api" /\ is_client_error(error.status) -> FALSE
           [] error.variant = "Api" /\ is_server_error(error.status) ->
                 cfg.retry_server_errors
           [] error.variant = "Http" ->
                 \/ error.source.timeout
                 \/ error.source.connect
                 \/ error.source.kind = "Request"
           [] error.variant = "Timeout" -> TRUE
           [] OTHER -> FALSE

\* a should_retry that retries a 5xx api error whatever retry_server_errors is
should_retry_every_server_error(cfg, error, attempts) ==
    IF attempts >= cfg.max_retries THEN FALSE
    ELSE IF cfg.retry_predicate # "none" THEN ApplyPredicate(cfg.retry_predicate, error)
    ELSE CASE error.variant = "RateLimit" -> FALSE
           [] error.variant = "Api" /\ is_client_error(error.status) -> FALSE
           [] error.variant = "Api" /\ is_server_error(error.status) -> TRUE
           [] error.variant = "Http" ->
                 \/ error.source.timeout
                 \/ error.source.connect
                 \/ error.source.kind = "Request"
           [] error.variant = "Timeout" -> TRUE
           [] OTHER -> FALSE

\* OdosHttpClient::should_retry
should_retry(cfg, error, attempts) ==
    IF attempts >= cfg.max_retries THEN FALSE
    ELSE IF cfg.retry_predicate # "none" THEN ApplyPredicate(cfg.retry_predicate, error)
    ELSE CASE error.variant = "RateLimit" -> FALSE
           [] error.variant = "Api" /\ is_client_error(error.status) -> FALSE
           [] error.variant = "Api" /\ is_server_error(error.status) ->
                 cfg.retry_server_errors
           [] error.variant = "Http" ->
                 \/ error.source.timeout
                 \/ error.source.connect
                 \/ error.source.kind = "Request"
           [] error.variant = "Timeout" -> TRUE
           [] OTHER -> FALSE

-----------------------------------------------------------------------------
(* ExponentialBackoff as execute_with_retry builds and uses it.            *)
(* The struct is built with `..Default::default()` and never reset, so     *)
(* current_interval starts at the crate's default of 500 ms whatever       *)
(* initial_interval is given; randomization_factor is 0.5 and multiplier   *)
(* is 1.5 (the crate's defaults).                                          *)

\* current_interval of ExponentialBackoff::default(): 500 ms
DefaultCurrentInterval == 2

\* max_interval: Duration::from_secs(30)
MaxInterval == 120

\* whole seconds as ticks
SecsToTicks(n) == 4 * n

\* the randomized intervals around interval: [0.5, 1.5] * interval, in whole ticks
RandomizedIntervals(interval) ==
    ((interval + 1) \div 2) .. ((3 * interval) \div 2)

\* increment_current_interval: interval * 1.5, capped at max_interval
increment_current_interval(interval) ==
    Min((3 * interval) \div 2, MaxInterval)

\* an overall budget of its own, twice the per-attempt timeout
max_elapsed_time_doubled(cfg) == 2 * cfg.timeout

\* max_elapsed_time: Some(self.config.timeout)
max_elapsed_time(cfg) == cfg.timeout

\* Backoff::next_backoff, given the randomized interval drawn
next_backoff(cfg, elapsed_time, randomized_interval) ==
    IF elapsed_time > max_elapsed_time(cfg) THEN None
    ELSE IF elapsed_time + randomized_interval <= max_elapsed_time(cfg)
         THEN Some(randomized_interval)
         ELSE None

\* elapsed time, kept no larger than one tick above the budget
Cap(cfg, t) == Min(t, max_elapsed_time(cfg) + 1)

\* the ticks slept for a Retry-After of secs seconds (ten seconds or more: 40)
RetryAfterTicks(secs) ==
    IF Len(secs) > 1 THEN SecsToTicks(10) ELSE SecsToTicks(secs[1])

-----------------------------------------------------------------------------
(* What the transport can answer *)

Response(status, body, header) == [status |-> status, body |-> body, header |-> header]

NoResponse == Response(0, UnreadableBody, NoHeader)

NoError == OdosError("none", 0, "", Unknown(0), None, None, NoReqwestError)

TraceA == "10becdc8-a021-4491-8201-a17b657204e0"

TraceB == "a0b1c2d3-e4f5-6789-0abc-def123456789"

\* Retry-After header values: absent, the seconds 0..MaxRetryAfterSecs, and
\* values str::parse::<u64> treats specially
RetryAfterHeaders ==
    { NoHeader }
    \cup { Header(<< DigitChar(n) >>) : n \in 0..MaxRetryAfterSecs }
    \cup { Header(<< "0", "1" >>), Header(<< "+", "1" >>), Header(<< "-", "1" >>),
           Header(<< "1", ".", "5" >>), Header(<< "a" >>), Header(<< " ", "1" >>),
           Header(<<>>), Header(<< "+" >>), Header(<< "xFF" >>),
           Header(<< "1", "8", "4", "4", "6", "7", "4", "4", "0", "7", "3", "7",
                     "0", "9", "5", "5", "1", "6", "1", "5" >>),
           Header(<< "1", "8", "4", "4", "6", "7", "4", "4", "0", "7", "3", "7",
                     "0", "9", "5", "5", "1", "6", "1", "6" >>) }

\* the Retry-After headers the call is given: absent, whole seconds, not a
\* number, and one above u64::MAX
EngineHeaders ==
    { NoHeader, Header(<< "a" >>) }
    \cup { Header(<< DigitChar(n) >>) : n \in 0..MaxRetryAfterSecs }
    \cup { Header(<< "1", "8", "4", "4", "6", "7", "4", "4", "0", "7", "3", "7",
                     "0", "9", "5", "5", "1", "6", "1", "6" >>) }

EngineStatuses == { 200, 304, 400, 429, 500, 501, 503 }

EngineBodies ==
    { TextBody("Service unavailable"),
      JsonBody(Doc(JStr("Error getting quote, please try again"), JStr(TraceA), JInt(2999))),
      UnreadableBody }

\* the responses the transport gives the call; only a 429 is read for Retry-After
EngineResponses ==
    { Response(s, b, h) : s \in EngineStatuses \ { 429 }, b \in EngineBodies,
                          h \in { NoHeader } }
    \cup { Response(429, b, h) : b \in EngineBodies, h \in EngineHeaders }

\* the latencies of an answered request: at once, or as late as explored
Latencies(cfg) == { 0, Min(MaxLatency, cfg.timeout) }

\* history tags of the attempts
Tag(kind, status) == [kind |-> kind, status |-> status]

-----------------------------------------------------------------------------
(* The classification of a non-2xx response (execute_with_retry, the       *)
(* Ok(Ok(response)) arm for a non-success status)                          *)

\* a classification that makes an api error of every non-2xx response
classify_all_as_api(response) ==
    LET parsed == parse_error_response(response.body)
    IN  api_error_with_code(response.status, parsed.message, parsed.code,
                            parsed.trace_id)

classify(response) ==
    LET parsed == parse_error_response(response.body)
    IN  IF response.status = 429
        THEN rate_limit_error_with_retry_after_and_trace(
                 parsed.message, extract_retry_after(response.header),
                 parsed.code, parsed.trace_id)
        ELSE api_error_with_code(response.status, parsed.message, parsed.code,
                                 parsed.trace_id)

-----------------------------------------------------------------------------
(* One execute_with_retry call *)

\* the Result<Response> returned, with two history fields: exit, the return
\* statement taken ("success", "build", "should_retry", "exhausted",
\* "backoff"), and cause, the response of the last attempt
Result(state, response, error, exit, cause) ==
    [state |-> state, response |-> response, error |-> error, exit |-> exit,
     cause |-> cause]

\* the calls that run concurrently on one client (ConcSpec)
Calls == { "a", "b" }

\* the local variables of a call that has just begun: its position, attempt,
\* the state of its backoff (current_interval; the time elapsed since its
\* start_time), the delay of its sleep in progress, the Result it returned
\* and, as history, the outcomes of its attempts in order
NewCall ==
    [pc |-> "loop", attempt |-> 0, current_interval |-> DefaultCurrentInterval,
     elapsed |-> 0, pending_delay |-> 0,
     result |-> Result("pending", NoResponse, NoError, "none", NoResponse),
     outcomes |-> <<>>]

NoCalls == [c \in Calls |-> NewCall]

Init ==
    /\ config \in Configs
    /\ pc = "loop"
    /\ attempt = 0
    /\ current_interval = DefaultCurrentInterval
    /\ elapsed = 0
    /\ finished = 0
    /\ failed = {}
    /\ last = Tag("none", 0)
    /\ built = 0
    /\ sent = 0
    /\ sleeps = <<>>
    /\ pending_delay = 0
    /\ last_error = NoError
    /\ result = Result("pending", NoResponse, NoError, "none", NoResponse)
    /\ cl_in = NoResponse
    /\ cl_out = NoError
    /\ calls = NoCalls
    /\ suggested = None

\* history: one more outcome, with tag
Record(tag) ==
    /\ finished' = finished + 1
    /\ last' = tag
    /\ failed' = IF tag.kind = "response" /\ is_success(tag.status)
                 THEN failed ELSE failed \cup { tag }

\* return Ok(response)
ReturnOk(response) ==
    /\ pc' = "done"
    /\ result' = Result("ok", response, NoError, "success", response)
    /\ UNCHANGED << current_interval, sleeps, pending_delay >>

\* return Err(error), at the return statement named exit, the last attempt
\* having been answered by cause (NoResponse when it was not answered)
ReturnErr(error, exit, cause) ==
    /\ pc' = "done"
    /\ result' = Result("err", NoResponse, error, exit, cause)
    /\ UNCHANGED << sleeps, pending_delay >>

\* tokio::time::sleep(delay).await
Sleep(kind, delay) ==
    /\ pc' = "sleeping"
    /\ pending_delay' = delay
    /\ sleeps' = Append(sleeps, [kind |-> kind, delay |-> delay])
    /\ UNCHANGED result

\* an end of the loop body that replaces the error by a generic one when the
\* retries are exhausted
AfterFailure_generic_error(error, now, cause) ==
    IF attempt >= config.max_retries
    THEN ReturnErr(timeout_error("Max retries exceeded"), "exhausted", cause)
         /\ UNCHANGED current_interval
    ELSE IF now > max_elapsed_time(config)
    THEN ReturnErr(error, "backoff", cause) /\ UNCHANGED current_interval
    ELSE \E randomized \in RandomizedIntervals(current_interval) :
            /\ current_interval' = increment_current_interval(current_interval)
            /\ IF next_backoff(config, now, randomized).some
               THEN Sleep("backoff", Unwrap(next_backoff(config, now, randomized)))
               ELSE ReturnErr(error, "backoff", cause)

\* the end of the loop body, with last_error = error: the exhaustion check, then
\* backoff.next_backoff() at elapsed time now
AfterFailure(error, now, cause) ==
    IF attempt >= config.max_retries
    THEN ReturnErr(error, "exhausted", cause) /\ UNCHANGED current_interval
    ELSE IF now > max_elapsed_time(config)
    THEN ReturnErr(error, "backoff", cause) /\ UNCHANGED current_interval
    ELSE \E randomized \in RandomizedIntervals(current_interval) :
            /\ current_interval' = increment_current_interval(current_interval)
            /\ IF next_backoff(config, now, randomized).some
               THEN Sleep("backoff", Unwrap(next_backoff(config, now, randomized)))
               ELSE ReturnErr(error, "backoff", cause)

\* a loop head that treats a build failure as a failed attempt
StartAttempt_retrying_build_failure ==
    /\ pc = "loop"
    /\ attempt' = attempt + 1
    /\ built' = built + 1
    /\ \E build_ok \in BOOLEAN :
          IF build_ok
          THEN /\ pc' = "inflight"
               /\ sent' = sent + 1
               /\ UNCHANGED << finished, failed, last, result, current_interval,
                               sleeps, pending_delay, last_error >>
          ELSE /\ Record(Tag("build_error", 0))
               /\ last_error' = Http(BuilderError)
               /\ AfterFailure(Http(BuilderError), elapsed, NoResponse)
               /\ UNCHANGED sent
    /\ UNCHANGED << config, elapsed, cl_in, cl_out, calls, suggested >>

\* a loop head that also issues a second attempt while the first one is still
\* in flight
StartAttempt_speculative ==
    /\ pc = "loop" \/ (pc = "inflight" /\ attempt = 1)
    /\ attempt' = attempt + 1
    /\ built' = built + 1
    /\ \E build_ok \in BOOLEAN :
          IF build_ok
          THEN /\ pc' = "inflight"
               /\ sent' = sent + 1
               /\ UNCHANGED << finished, failed, last, result >>
          ELSE /\ pc' = "done"
               /\ result' = Result("err", NoResponse, Http(BuilderError), "build",
                                    NoResponse)
               /\ Record(Tag("build_error", 0))
               /\ UNCHANGED sent
    /\ UNCHANGED << config, current_interval, elapsed, sleeps, pending_delay,
                    last_error, cl_in, cl_out, calls, suggested >>

\* a loop head that builds the request in the first iteration only and sends
\* that request again in the later ones
StartAttempt_reusing_request ==
    /\ pc = "loop"
    /\ attempt' = attempt + 1
    /\ IF attempt = 0
       THEN /\ built' = built + 1
            /\ \E build_ok \in BOOLEAN :
                  IF build_ok
                  THEN /\ pc' = "inflight"
                       /\ sent' = sent + 1
                       /\ UNCHANGED << finished, failed, last, result >>
                  ELSE /\ pc' = "done"
                       /\ result' = Result("err", NoResponse, Http(BuilderError),
                                            "build", NoResponse)
                       /\ Record(Tag("build_error", 0))
                       /\ UNCHANGED sent
       ELSE /\ pc' = "inflight"
            /\ sent' = sent + 1
            /\ UNCHANGED << built, finished, failed, last, result >>
    /\ UNCHANGED << config, current_interval, elapsed, sleeps, pending_delay,
                    last_error, cl_in, cl_out, calls, suggested >>

\* loop head: attempt += 1, request_builder_fn().build(), client.execute(request)
StartAttempt ==
    /\ pc = "loop"
    /\ attempt' = attempt + 1
    /\ built' = built + 1
    /\ \E build_ok \in BOOLEAN :
          IF build_ok
          THEN /\ pc' = "inflight"
               /\ sent' = sent + 1
               /\ UNCHANGED << finished, failed, last, result >>
          ELSE /\ pc' = "done"
               /\ result' = Result("err", NoResponse, Http(BuilderError), "build",
                                    NoResponse)
               /\ Record(Tag("build_error", 0))
               /\ UNCHANGED sent
    /\ UNCHANGED << config, current_interval, elapsed, sleeps, pending_delay,
                    last_error, cl_in, cl_out, calls, suggested >>

\* Ok(Ok(response)): the transport answers within the per-attempt timeout
Respond ==
    /\ pc = "inflight"
    /\ \E response \in EngineResponses, latency \in Latencies(config) :
          LET now == Cap(config, elapsed + latency)
              error == classify(response)
          IN  /\ elapsed' = now
              /\ Record(Tag("response", response.status))
              /\ last_error' = (IF is_success(response.status) THEN NoError ELSE error)
              /\ IF is_success(response.status)
                 THEN ReturnOk(response)
                 ELSE IF ~should_retry(config, error, attempt)
                 THEN ReturnErr(error, "should_retry", response)
                      /\ UNCHANGED current_interval
                 ELSE IF /\ response.status = 429
                         /\ error.retry_after.some
                         /\ ~IsZero(Unwrap(error.retry_after))
                 THEN /\ Sleep("retry_after", RetryAfterTicks(Unwrap(error.retry_after)))
                      /\ UNCHANGED current_interval
                 ELSE AfterFailure(error, now, response)
    /\ UNCHANGED << config, attempt, built, sent, cl_in, cl_out, calls, suggested >>

\* Ok(Err(e)): the transport fails
TransportFails ==
    /\ pc = "inflight"
    /\ \E e \in TransportErrors, latency \in Latencies(config) :
          LET now == Cap(config, elapsed + latency)
              error == Http(e)
          IN  /\ elapsed' = now
              /\ Record(Tag("transport_error", 0))
              /\ last_error' = error
              /\ IF ~should_retry(config, error, attempt)
                 THEN ReturnErr(error, "should_retry", NoResponse)
                      /\ UNCHANGED current_interval
                 ELSE AfterFailure(error, now, NoResponse)
    /\ UNCHANGED << config, attempt, built, sent, cl_in, cl_out, calls, suggested >>

\* Err(_): tokio's timeout fires; the timer fires after its deadline and
\* start_time was read before the timer was armed, so more than
\* config.timeout has elapsed since start_time
AttemptTimesOut ==
    /\ pc = "inflight"
    /\ LET now == Cap(config, elapsed + config.timeout + 1)
           error == timeout_error("Request timed out")
       IN  /\ elapsed' = now
           /\ Record(Tag("timeout", 0))
           /\ last_error' = error
           /\ AfterFailure(error, now, NoResponse)
    /\ UNCHANGED << config, attempt, built, sent, cl_in, cl_out, calls, suggested >>

\* a sleep whose timer never fires
SleepEnds_never ==
    /\ pc = "sleeping"
    /\ UNCHANGED vars

\* the sleep ends and the loop starts over
SleepEnds ==
    /\ pc = "sleeping"
    /\ pc' = "loop"
    /\ elapsed' = Cap(config, elapsed + pending_delay)
    /\ pending_delay' = 0
    /\ last_error' = NoError
    /\ UNCHANGED << config, attempt, current_interval, finished, failed, last,
                    built, sent, sleeps, result, cl_in, cl_out, calls, suggested >>

Next ==
    \/ StartAttempt
    \/ Respond
    \/ TransportFails
    \/ AttemptTimesOut
    \/ SleepEnds

Spec == Init /\ [][Next]_vars

\* the call is awaited to its end: the runtime polls the future, so the loop
\* head runs when it is reached; an attempt is answered, fails or is cut off
\* by the per-attempt timeout; a sleep ends when its timer fires
Fairness ==
    /\ WF_vars(StartAttempt)
    /\ WF_vars(Respond \/ TransportFails \/ AttemptTimesOut)
    /\ WF_vars(SleepEnds)

LiveSpec == Init /\ [][Next]_vars /\ Fairness

-----------------------------------------------------------------------------
(* The classification of one non-2xx response, over a wide set of inputs *)

ClassifyStatuses == { 304, 400, 429, 500, 501, 502, 503, 504, 507 }

\* every code of the table, and codes outside it
ClassifyErrorCodes ==
    { JInt(n) : n \in TableCodes \cup { 0, 429, 1001, 2996, 4299, 5004, U16Max,
                                        U16Max + 1, -1 } }
    \cup { JStr("2999"), JFloat, JNull, JAbsent }

ClassifyTraceIds ==
    { JStr(TraceA), JStr("10BECDC8-A021-4491-8201-A17B657204E0"),
      JStr("10becdc8a02144918201a17b657204e0"), JStr(TraceB), JStr("not-a-uuid"),
      JNull, JAbsent }

ClassifyDetails ==
    { JStr("Error getting quote, please try again"), JStr(""), JInt(1), JAbsent }

ClassifyBodies ==
    { JsonBody(Doc(d, t, c)) : d \in ClassifyDetails, t \in ClassifyTraceIds,
                               c \in ClassifyErrorCodes }
    \cup { TextBody("Internal server error"), TextBody("Rate limit exceeded"),
           TextBody(""), UnreadableBody }

ClassifyResponses ==
    { Response(s, b, NoHeader) : s \in ClassifyStatuses \ { 429 }, b \in ClassifyBodies }
    \cup { Response(429, b, h) :
             b \in { TextBody("Rate limit exceeded"), UnreadableBody,
                     JsonBody(Doc(JStr("Rate limit exceeded"), JStr(TraceB), JInt(4299))) },
             h \in RetryAfterHeaders }

ClassifyInit ==
    /\ config = [timeout |-> 1, max_retries |-> 0, retry_server_errors |-> FALSE,
                 retry_predicate |-> "none"]
    /\ pc = "classify"
    /\ attempt = 0
    /\ current_interval = DefaultCurrentInterval
    /\ elapsed = 0
    /\ finished = 0
    /\ failed = {}
    /\ last = Tag("none", 0)
    /\ built = 0
    /\ sent = 0
    /\ sleeps = <<>>
    /\ pending_delay = 0
    /\ last_error = NoError
    /\ result = Result("pending", NoResponse, NoError, "none", NoResponse)
    /\ cl_in \in ClassifyResponses
    /\ cl_out = NoError
    /\ calls = NoCalls
    /\ suggested = None

Classify ==
    /\ pc = "classify"
    /\ pc' = "classified"
    /\ cl_out' = classify(cl_in)
    /\ UNCHANGED << config, attempt, current_interval, elapsed, finished, failed,
                    last, built, sent, sleeps, pending_delay, last_error, result,
                    cl_in, calls, suggested >>

ClassifyNext == Classify

ClassifySpec == ClassifyInit /\ [][ClassifyNext]_vars

-----------------------------------------------------------------------------
(* Several execute_with_retry calls on one client: `attempt` and `backoff` *)
(* are locals of each call, the client (its config) is borrowed immutably  *)

\* the configurations of the shared client
ConcConfigs ==
    { cfg \in Configs : /\ cfg.timeout = MaxTimeout
                        /\ cfg.retry_server_errors
                        /\ cfg.retry_predicate = "none" }

\* what one attempt can end with: a response, a transport failure, the
\* per-attempt timeout, or (before it is sent) a build failure
Outcome(kind, response, source, latency) ==
    [kind |-> kind, response |-> response, source |-> source, latency |-> latency]

BuildFailure == Outcome("build_error", NoResponse, BuilderError, 0)

\* the answers given to the concurrent calls: success, a client error and a
\* retryable server error
ConcResponses ==
    { r \in EngineResponses :
        /\ r.status \in { 200, 400, 503 }
        /\ r.body = UnreadableBody }

ConcOutcomes(cfg) ==
    { Outcome("response", r, NoReqwestError, 0) : r \in ConcResponses }
    \cup { Outcome("transport_error", NoResponse, e, 0) :
              e \in { ReqwestError("Redirect", FALSE, FALSE) } }
    \cup { Outcome("timeout", NoResponse, NoReqwestError, cfg.timeout + 1) }

\* history entry: an outcome and the sleep that followed it, if any
Seen(o, slept) == [outcome |-> o, slept |-> slept]

\* return Ok(response)
CallReturnOk(l, o, now) ==
    [l EXCEPT !.pc = "done", !.elapsed = now,
              !.result = Result("ok", o.response, NoError, "success", o.response),
              !.outcomes = Append(@, Seen(o, None))]

\* return Err(error)
CallReturnErr(l, o, error, exit, now) ==
    [l EXCEPT !.pc = "done", !.elapsed = now,
              !.result = Result("err", NoResponse, error, exit, o.response),
              !.outcomes = Append(@, Seen(o, None))]

\* tokio::time::sleep(delay).await
CallSleep(l, o, delay, now) ==
    [l EXCEPT !.pc = "sleeping", !.elapsed = now, !.pending_delay = delay,
              !.outcomes = Append(@, Seen(o, Some(delay)))]

\* the end of the loop body: the exhaustion check, then backoff.next_backoff()
CallAfterFailure(cfg, l, o, error, now, randomized) ==
    IF l.attempt >= cfg.max_retries
    THEN CallReturnErr(l, o, error, "exhausted", now)
    ELSE IF now > max_elapsed_time(cfg)
    THEN CallReturnErr(l, o, error, "backoff", now)
    ELSE LET m == [l EXCEPT !.current_interval = increment_current_interval(@)]
         IN  IF next_backoff(cfg, now, randomized).some
             THEN CallSleep(m, o, Unwrap(next_backoff(cfg, now, randomized)), now)
             ELSE CallReturnErr(m, o, error, "backoff", now)

\* the match on the outcome of an attempt
CallOutcome(cfg, l, o, randomized) ==
    LET now == Cap(cfg, l.elapsed + o.latency)
    IN  CASE o.kind = "response" ->
               LET error == classify(o.response)
               IN  IF is_success(o.response.status)
                   THEN CallReturnOk(l, o, now)
                   ELSE IF ~should_retry(cfg, error, l.attempt)
                   THEN CallReturnErr(l, o, error, "should_retry", now)
                   ELSE IF /\ o.response.status = 429
                           /\ error.retry_after.some
                           /\ ~IsZero(Unwrap(error.retry_after))
                   THEN CallSleep(l, o, RetryAfterTicks(Unwrap(error.retry_after)), now)
                   ELSE CallAfterFailure(cfg, l, o, error, now, randomized)
          [] o.kind = "transport_error" ->
               IF ~should_retry(cfg, Http(o.source), l.attempt)
               THEN CallReturnErr(l, o, Http(o.source), "should_retry", now)
               ELSE CallAfterFailure(cfg, l, o, Http(o.source), now, randomized)
          [] o.kind = "timeout" ->
               CallAfterFailure(cfg, l, o, timeout_error("Request timed out"), now,
                                randomized)

ConcInit ==
    /\ config \in ConcConfigs
    /\ pc = "calls"
    /\ attempt = 0
    /\ current_interval = DefaultCurrentInterval
    /\ elapsed = 0
    /\ finished = 0
    /\ failed = {}
    /\ last = Tag("none", 0)
    /\ built = 0
    /\ sent = 0
    /\ sleeps = <<>>
    /\ pending_delay = 0
    /\ last_error = NoError
    /\ result = Result("pending", NoResponse, NoError, "none", NoResponse)
    /\ cl_in = NoResponse
    /\ cl_out = NoError
    /\ calls = NoCalls
    /\ suggested = None

OnlyCalls ==
    UNCHANGED << config, pc, attempt, current_interval, elapsed, finished, failed,
                 last, built, sent, sleeps, pending_delay, last_error, result,
                 cl_in, cl_out, suggested >>

\* a loop head whose attempt counter is one counter kept by the client
CallStartAttempt_shared_counter(c) ==
    /\ pc = "calls"
    /\ calls[c].pc = "loop"
    /\ LET shared == CHOOSE n \in 0..(2 * MaxRetries) :
                        /\ \E d \in Calls : calls[d].attempt = n
                        /\ \A d \in Calls : calls[d].attempt <= n
       IN  \E build_ok \in BOOLEAN :
              calls' = [calls EXCEPT ![c] =
                 IF build_ok
                 THEN [@ EXCEPT !.pc = "inflight", !.attempt = shared + 1]
                 ELSE [@ EXCEPT !.pc = "done", !.attempt = shared + 1,
                                !.result = Result("err", NoResponse, Http(BuilderError),
                                                  "build", NoResponse),
                                !.outcomes = Append(@, Seen(BuildFailure, None))]]
    /\ OnlyCalls

\* loop head of call c: attempt += 1, request_builder_fn().build(),
\* client.execute(request)
CallStartAttempt(c) ==
    /\ pc = "calls"
    /\ calls[c].pc = "loop"
    /\ \E build_ok \in BOOLEAN :
          calls' = [calls EXCEPT ![c] =
             IF build_ok
             THEN [@ EXCEPT !.pc = "inflight", !.attempt = @ + 1]
             ELSE [@ EXCEPT !.pc = "done", !.attempt = @ + 1,
                            !.result = Result("err", NoResponse, Http(BuilderError),
                                              "build", NoResponse),
                            !.outcomes = Append(@, Seen(BuildFailure, None))]]
    /\ OnlyCalls

\* the attempt of call c ends and the loop body of call c handles its outcome
CallAttemptEnds(c) ==
    /\ pc = "calls"
    /\ calls[c].pc = "inflight"
    /\ \E o \in ConcOutcomes(config),
          randomized \in RandomizedIntervals(calls[c].current_interval) :
          calls' = [calls EXCEPT ![c] = CallOutcome(config, @, o, randomized)]
    /\ OnlyCalls

\* the sleep of call c ends and its loop starts over
CallSleepEnds(c) ==
    /\ pc = "calls"
    /\ calls[c].pc = "sleeping"
    /\ calls' = [calls EXCEPT ![c] =
                    [@ EXCEPT !.pc = "loop",
                              !.elapsed = Cap(config, @ + calls[c].pending_delay),
                              !.pending_delay = 0]]
    /\ OnlyCalls

ConcNext ==
    \E c \in Calls :
        \/ CallStartAttempt(c)
        \/ CallAttemptEnds(c)
        \/ CallSleepEnds(c)

ConcSpec == ConcInit /\ [][ConcNext]_vars

-----------------------------------------------------------------------------
(* The methods of OdosError applied to an error value *)

\* the error values explored: every classification of a response, the
\* transport and build failures, the per-attempt timeout, and one error of
\* each variant the SDK raises elsewhere
ErrorValues ==
    { classify(r) : r \in ClassifyResponses }
    \cup { Http(e) : e \in TransportErrors \cup { BuilderError } }
    \cup { timeout_error("Request timed out") }
    \cup { plain_error(v, "Invalid") : v \in PlainVariants }

ErrorInit ==
    /\ config = [timeout |-> 1, max_retries |-> 0, retry_server_errors |-> FALSE,
                 retry_predicate |-> "none"]
    /\ pc = "error"
    /\ attempt = 0
    /\ current_interval = DefaultCurrentInterval
    /\ elapsed = 0
    /\ finished = 0
    /\ failed = {}
    /\ last = Tag("none", 0)
    /\ built = 0
    /\ sent = 0
    /\ sleeps = <<>>
    /\ pending_delay = 0
    /\ last_error = NoError
    /\ result = Result("pending", NoResponse, NoError, "none", NoResponse)
    /\ cl_in = NoResponse
    /\ cl_out \in ErrorValues
    /\ calls = NoCalls
    /\ suggested = None

\* cl_out.suggested_retry_delay()
SuggestRetryDelay ==
    /\ pc = "error"
    /\ pc' = "suggested"
    /\ suggested' = suggested_retry_delay(cl_out)
    /\ UNCHANGED << config, attempt, current_interval, elapsed, finished, failed,
                    last, built, sent, sleeps, pending_delay, last_error, result,
                    cl_in, cl_out, calls >>

ErrorNext == SuggestRetryDelay

ErrorSpec == ErrorInit /\ [][ErrorNext]_vars

-----------------------------------------------------------------------------
(* Claims about Spec *)

Tag429 == Tag("response", 429)

Tag503 == Tag("response", 503)

Tag400 == Tag("response", 400)

TagTimeout == Tag("timeout", 0)

Returned == pc = "done"

ReturnedErr == pc = "done" /\ result.state = "err"

\* C1: when every request is answered with HTTP 429, the call makes exactly
\* one attempt and returns a rate_limit error, whatever the RetryPolicy is
\* (any max_retries, any retry_server_errors, any retry_predicate): as long
\* as 429 is the only failure seen, one request has been sent, and the call
\* returns a rate_limit error.
C1_RateLimitNeverRetried ==
    failed = { Tag429 } =>
        /\ sent = 1
        /\ (Returned => result.state = "err" /\ category(result.error) = "rate_limit")

\* C2: with the default retry logic and retry_server_errors = true, when
\* every response is HTTP 503 and the call returns the error at one of its
\* attempt-limit returns (not because the backoff gave no delay), exactly
\* max_retries + 1 requests were sent.
C2_ExactlyNPlusOneAttempts ==
    ( /\ config.retry_predicate = "none"
      /\ config.retry_server_errors
      /\ failed = { Tag503 }
      /\ ReturnedErr
      /\ result.exit # "backoff" ) =>
        sent = config.max_retries + 1

\* C3: with the default retry logic, retry_server_errors = true and
\* max_retries >= 2, after HTTP 503 on the first two attempts the call goes
\* on to a third attempt (it does not return the error, unless the backoff
\* gave no delay), and a 2xx answer to the third attempt makes it return
\* success after exactly 3 attempts.
C3_SuccessOnThirdAttempt ==
    ( /\ config.retry_predicate = "none"
      /\ config.retry_server_errors
      /\ config.max_retries >= 2
      /\ failed = { Tag503 } ) =>
        /\ (finished = 2 /\ last = Tag503 /\ ReturnedErr => result.exit = "backoff")
        /\ (finished = 3 /\ last = Tag("response", 200) =>
                Returned /\ result.state = "ok" /\ sent = 3)

\* C4: with a retry_predicate that always returns false, the call is over
\* after its first attempt whatever that attempt's failure is (a per-attempt
\* timeout included) and whatever max_retries is: one attempt, no sleep.
C4_PredicateFalseNeverRetries ==
    config.retry_predicate = "always_false" =>
        /\ attempt <= 1
        /\ sent <= 1
        /\ sleeps = <<>>
        /\ (finished >= 1 => Returned)

C4_Witness ==
    /\ config.retry_predicate = "always_false"
    /\ config.max_retries = MaxRetries
    /\ last = TagTimeout
    /\ ReturnedErr
    /\ category(result.error) = "timeout"

\* C5: with a retry_predicate that always returns true and HTTP 400 as the
\* answer to every attempt, the call re-attempts until the attempt cap given
\* by max_retries (max_retries + 1 attempts in all) is reached: when it
\* returns the error at one of its attempt-limit returns (not because the
\* backoff gave no delay), max_retries + 1 requests were sent.
C5_PredicateTrueRetriesToCap ==
    ( /\ config.retry_predicate = "always_true"
      /\ failed = { Tag400 }
      /\ ReturnedErr
      /\ result.exit # "backoff" ) =>
        sent = config.max_retries + 1

\* C6: under the default retry logic (no retry_predicate), a 4xx response
\* other than 429 ends the call at once with an api error carrying that
\* status, whatever max_retries and retry_server_errors are; when it answers
\* the first attempt, exactly one request was sent and nothing was slept.
C6_ClientErrorNotRetried ==
    ( /\ config.retry_predicate = "none"
      /\ last.kind = "response"
      /\ is_client_error(last.status)
      /\ last.status # 429 ) =>
        /\ ReturnedErr
        /\ category(result.error) = "api"
        /\ result.error.status = last.status
        /\ sent = finished
        /\ (finished = 1 => sent = 1 /\ sleeps = <<>>)

C6_Witness ==
    /\ config.retry_predicate = "none"
    /\ config.max_retries = MaxRetries
    /\ config.retry_server_errors
    /\ last = Tag400
    /\ finished = 1
    /\ ReturnedErr

\* C7: with max_retries = 0 the call makes exactly one attempt and never
\* sleeps, whatever the outcome of that attempt and whatever the
\* retry_predicate is.
C7_ZeroRetriesOneAttempt ==
    config.max_retries = 0 =>
        /\ attempt <= 1
        /\ sent <= 1
        /\ sleeps = <<>>
        /\ pc # "sleeping"
        /\ (finished >= 1 => Returned)

C7_Witness ==
    /\ config.max_retries = 0
    /\ config.retry_predicate = "always_true"
    /\ last = Tag429
    /\ ReturnedErr
    /\ result.error.retry_after = Some(<< 1 >>)

TagBuildError == Tag("build_error", 0)

\* C11: when the request factory's request fails to build, the call returns
\* an http-category error on that iteration: the request is not handed to
\* the transport, no sleep is scheduled after it and no further attempt is
\* made, whatever max_retries and retry_predicate are.
C11_BuildFailureReturnsAtOnce ==
    last = TagBuildError =>
        /\ ReturnedErr
        /\ result.exit = "build"
        /\ result.error = Http(BuilderError)
        /\ category(result.error) = "http"
        /\ attempt = built
        /\ sent = built - 1
        /\ Len(sleeps) = finished - 1

C11_Witness ==
    /\ last = TagBuildError
    /\ built = 2
    /\ sent = 1
    /\ config.max_retries = MaxRetries
    /\ config.retry_predicate = "always_true"
    /\ ReturnedErr

\* C12: whenever the call returns an error, the error is the classification
\* of the most recent attempt's outcome, unchanged (category, status,
\* message, error_code, trace_id, retry_after): the classification of the
\* last response, the transport error of the last attempt, the timeout error
\* or the build error, on every exit path.
C12_ReturnsLastClassification ==
    ReturnedErr =>
        CASE last.kind = "response" ->
                /\ result.cause.status = last.status
                /\ result.error = classify(result.cause)
                /\ result.error = last_error
          [] last.kind = "transport_error" ->
                /\ result.error.variant = "Http"
                /\ result.error.source \in TransportErrors
                /\ result.error = last_error
          [] last.kind = "timeout" ->
                /\ result.error = timeout_error("Request timed out")
                /\ result.error = last_error
          [] last.kind = "build_error" ->
                result.error = Http(BuilderError)

C12_Witness ==
    /\ ReturnedErr
    /\ config.max_retries = 2
    /\ attempt = 2
    /\ finished = 2
    /\ Tag503 \in failed
    /\ last = Tag("response", 500)
    /\ result.error.status = 500
    /\ result.error.code = Known("AlgoInternal")
    /\ result.error.trace_id = Some(TraceA)

\* C13: the attempt counter only ever increases, by one per loop iteration
\* (one request factory call each), and the number of attempts never exceeds
\* max_retries + 1, for every policy and every sequence of outcomes.
C13_AttemptCounterCapped ==
    /\ [](/\ attempt <= config.max_retries + 1
          /\ attempt = built
          /\ sent <= attempt)
    /\ [][\/ attempt' = attempt
          \/ attempt' = attempt + 1 /\ pc = "loop"]_vars

C13_Witness ==
    /\ config.max_retries = MaxRetries
    /\ attempt = MaxRetries
    /\ sent = MaxRetries
    /\ ReturnedErr
    /\ result.exit = "should_retry"

\* an attempt has just failed: its error is still bound
JustFailed == last_error.variant # "none"

AttemptsRemain == attempt < config.max_retries

\* the retry policy's verdict on an error, the attempt limit aside: the
\* retry_predicate's answer when there is one, else the default logic's
Retryable(cfg, e) ==
    IF cfg.retry_predicate # "none" THEN ApplyPredicate(cfg.retry_predicate, e)
    ELSE CASE e.variant = "RateLimit" -> FALSE
           [] e.variant = "Api" -> is_server_error(e.status) /\ cfg.retry_server_errors
           [] e.variant = "Http" ->
                 e.source.timeout \/ e.source.connect \/ e.source.kind = "Request"
           [] e.variant = "Timeout" -> TRUE

\* the sleep in progress
CurrentSleep == sleeps[Len(sleeps)]

DecidedToRetry ==
    \/ pc = "sleeping"
    \/ Returned /\ result.exit = "backoff"

C18_TimeoutAloneNeverEndsCall ==
    ( /\ config.retry_predicate = "none"
      /\ failed = { TagTimeout }
      /\ finished = 1
      /\ AttemptsRemain ) =>
        ~Returned

\* C19: after a 429 response the call sleeps and re-issues the request only
\* when the response carries a non-zero retry_after, and then the sleep is
\* exactly retry_after; a 429 whose retry_after is zero or missing makes the
\* call return the rate_limit error with no sleep and no further attempt.
C19_RateLimitSleepOnlyByRetryAfter ==
    (JustFailed /\ last_error.variant = "RateLimit") =>
        IF last_error.retry_after.some /\ ~IsZero(Unwrap(last_error.retry_after))
        THEN pc = "sleeping" =>
                CurrentSleep = [kind |-> "retry_after",
                                delay |-> RetryAfterTicks(Unwrap(last_error.retry_after))]
        ELSE /\ ReturnedErr
             /\ result.error = last_error
             /\ Len(sleeps) = finished - 1

\* C20: no sleep of any kind (exponential backoff or retry_after) is
\* scheduled that would take the time elapsed since the start of the call
\* beyond the overall budget config.timeout.
C20_NoSleepBeyondBudget ==
    pc = "sleeping" => elapsed + CurrentSleep.delay <= config.timeout

\* the delays of the exponential backoff sleeps of the call, in order (the
\* sleeps for a server-supplied retry_after left out)
BackoffDelays == SelectSeq(sleeps, LAMBDA s : s.kind = "backoff")

\* C21: within one call the backoff delays the engine sleeps for never
\* decrease from one sleep to the next and never exceed the maximum backoff,
\* a wait replaced by a server-supplied retry_after aside.
C21_BackoffDelaysMonotone ==
    \A i, j \in DOMAIN BackoffDelays :
        i < j => /\ BackoffDelays[i].delay <= BackoffDelays[j].delay
                 /\ BackoffDelays[j].delay <= MaxInterval

\* C22: the call returns success only for a 2xx answer to its most recent
\* attempt, returns it as received as soon as an attempt is answered 2xx, and
\* neither sleeps nor sends anything after that.
C22_SuccessOnlyOn2xx ==
    /\ [](/\ result.state = "ok" =>
                /\ result.response.status \in 200..299
                /\ result.response = result.cause
                /\ last = Tag("response", result.response.status)
                /\ result.error = NoError
                /\ pc = "done"
                /\ finished = sent
                /\ sent = attempt
          /\ last.kind = "response" /\ last.status \in 200..299 =>
                result.state = "ok")
    /\ [][result.state = "ok" => UNCHANGED vars]_vars

\* a success returned by the third attempt, after two sleeps
C22_Witness ==
    /\ result.state = "ok"
    /\ attempt = 3
    /\ Len(sleeps) = 2
    /\ Cardinality(failed) = 2

\* C23: every call that is awaited to its end returns, with a success or with
\* a classified error, and stays returned: the attempt loop does not run
\* forever, whatever the policy and the transport do.
C23_CallTerminates ==
    <>[](/\ pc = "done"
         /\ \/ result.state = "ok" /\ result.error = NoError
            \/ result.state = "err" /\ result.error.variant
                                          \in { "Http", "Api", "Timeout", "RateLimit" })

\* a call that returned an error after the most attempts and sleeps the
\* bounds allow
C23_Witness ==
    /\ pc = "done"
    /\ result.state = "err"
    /\ attempt = MaxRetries
    /\ Len(sleeps) = MaxRetries - 1

\* C24: the request factory is invoked exactly once in every loop iteration,
\* and a request is handed to the transport only in the iteration that built
\* it, once: requests sent and factory invocations advance together, one at
\* a time.
C24_FactoryOncePerAttempt ==
    /\ [](/\ built = attempt
          /\ sent <= built
          /\ built <= sent + 1
          /\ built = sent + 1 => result.exit = "build")
    /\ [][/\ attempt' # attempt => built' = built + 1
          /\ built' # built => attempt' = attempt + 1 /\ built' = built + 1
          /\ sent' # sent => sent' = sent + 1 /\ built' = built + 1]_vars

\* three requests sent, each from its own factory invocation
C24_Witness ==
    /\ sent = 3
    /\ built = 3
    /\ pc = "inflight"

\* the attempts of the call whose outcome is not known yet
InFlight == attempt - finished

\* C25: at most one attempt of a call is in flight at any time, every attempt
\* produces exactly one outcome, and an attempt begins only when the outcome
\* of every earlier attempt is known.
C25_AttemptsSerialized ==
    /\ [](/\ InFlight \in { 0, 1 }
          /\ InFlight = 1 <=> pc = "inflight"
          /\ finished <= attempt)
    /\ [][/\ attempt' # attempt => /\ InFlight = 0
                                   /\ attempt' = attempt + 1
                                   /\ pc = "loop"
                                   /\ last_error = NoError
          /\ finished' # finished => /\ finished' = finished + 1
                                     /\ finished' = attempt'
                                     /\ pc' # "inflight"]_vars

\* the third attempt is in flight, the first two have their outcomes
C25_Witness ==
    /\ pc = "inflight"
    /\ attempt = 3
    /\ finished = 2
    /\ Cardinality(failed) = 2

C29_ReturnedErrorCategories ==
    ReturnedErr =>
        /\ category(result.error) \in { "http", "api", "timeout", "rate_limit" }
        /\ category(result.error) = "rate_limit" <=> last = Tag429
        /\ category(result.error) = "api" =>
              /\ last = Tag("response", result.error.status)
              /\ result.error.status # 429
              /\ result.error.status \notin 200..299

\* a rate limit error returned by the second attempt, after a retried 503
C29_Witness ==
    /\ ReturnedErr
    /\ category(result.error) = "rate_limit"
    /\ attempt = 2
    /\ failed = { Tag503, Tag429 }

-----------------------------------------------------------------------------
(* Claims about ClassifySpec *)

Classified == pc = "classified"

\* the header value is a decimal integer: digits, after an optional '+'
IsNumeral(bytes) ==
    LET digits == IF bytes # <<>> /\ Head(bytes) = "+" THEN Tail(bytes) ELSE bytes
    IN  /\ digits # <<>>
        /\ \A i \in 1..Len(digits) : digits[i] \in DigitChars

\* the digits of a number without its leading zeros
RECURSIVE StripZeros(_)
StripZeros(digits) ==
    IF Len(digits) > 1 /\ Head(digits) = 0 THEN StripZeros(Tail(digits)) ELSE digits

\* the number a numeral denotes, as its digits
NumeralValue(bytes) ==
    LET digits == IF Head(bytes) = "+" THEN Tail(bytes) ELSE bytes
    IN  StripZeros([i \in 1..Len(digits) |-> DigitVal(digits[i])])

\* under the default retry logic no policy retries the error
NeverRetriedByDefault(error) ==
    /\ ~is_retryable(error)
    /\ \A cfg \in Configs, attempts \in 1..MaxRetries :
          cfg.retry_predicate = "none" => ~should_retry(cfg, error, attempts)

\* C8 as stated: a 429 response is classified as a RateLimit error whose
\* retry_after is Some(n) exactly when the Retry-After header is present and
\* holds a non-negative integer n (0 gives Some(0)), and None otherwise; in
\* both cases the error is non-retryable.
C8_RetryAfterOfAnyInteger ==
    (Classified /\ cl_in.status = 429) =>
        /\ cl_out.variant = "RateLimit"
        /\ cl_out.retry_after =
              (IF cl_in.header.present /\ IsNumeral(cl_in.header.bytes)
               THEN Some(NumeralValue(cl_in.header.bytes))
               ELSE None)
        /\ NeverRetriedByDefault(cl_out)

\* C8 as amended: a 429 response is classified as a RateLimit error whose
\* retry_after is Some(n) exactly when the Retry-After header is present and
\* holds a non-negative integer n <= u64::MAX (0 gives Some(0)), and None
\* otherwise (absent, not an integer, or an integer above u64::MAX); in every
\* case the error is non-retryable.
C8_RetryAfterOfU64 ==
    (Classified /\ cl_in.status = 429) =>
        /\ cl_out.variant = "RateLimit"
        /\ cl_out.retry_after =
              (IF /\ cl_in.header.present
                  /\ IsNumeral(cl_in.header.bytes)
                  /\ ~DigitsGreater(NumeralValue(cl_in.header.bytes), U64MaxDigits)
               THEN Some(NumeralValue(cl_in.header.bytes))
               ELSE None)
        /\ NeverRetriedByDefault(cl_out)

C8_Witness ==
    /\ Classified
    /\ cl_in.status = 429
    /\ cl_in.header = Header(<< "0" >>)
    /\ cl_out.retry_after = Some(<< 0 >>)

\* the body is a JSON object with a string detail, a traceId that is a Uuid
\* and an errorCode that is an integer of u16
IsStructured(body) ==
    /\ body.readable
    /\ body.json
    /\ body.doc.detail.t = "string"
    /\ body.doc.traceId.t = "string"
    /\ ParseUuid(body.doc.traceId.s).some
    /\ body.doc.errorCode.t = "int"
    /\ body.doc.errorCode.n \in 0..U16Max

\* C9: for a structured body {detail, traceId, errorCode} the error has
\* message = detail, trace_id = traceId and the error_code the table gives
\* for errorCode: a named variant with that number for each code of the
\* table, Unknown(errorCode) for any other; errorCode 2999 gives AlgoInternal.
C9_StructuredBodyFields ==
    (Classified /\ IsStructured(cl_in.body)) =>
        /\ cl_out.variant = (IF cl_in.status = 429 THEN "RateLimit" ELSE "Api")
        /\ cl_out.message = cl_in.body.doc.detail.s
        /\ cl_out.trace_id = ParseUuid(cl_in.body.doc.traceId.s)
        /\ Code(cl_out.code) = cl_in.body.doc.errorCode.n
        /\ (cl_out.code.variant = "Unknown") = (cl_in.body.doc.errorCode.n \notin TableCodes)
        /\ (cl_in.body.doc.errorCode.n = 2999 => cl_out.code = Known("AlgoInternal"))

C9_Witness ==
    /\ Classified
    /\ cl_in.status = 500
    /\ IsStructured(cl_in.body)
    /\ cl_in.body.doc.errorCode.n = 2999
    /\ cl_out.code = Known("AlgoInternal")
    /\ cl_out.trace_id = Some(TraceA)
    /\ cl_out.message = "Error getting quote, please try again"

\* C10: classification never fails: every non-2xx response yields an Api or
\* RateLimit error, and for a readable body that is not a structured document
\* (plain text, or JSON lacking or mistyping a field) the error has
\* error_code Unknown(0), no trace_id and the raw body text as its message.
C10_UnstructuredBodyFallback ==
    Classified =>
        /\ cl_out.variant = (IF cl_in.status = 429 THEN "RateLimit" ELSE "Api")
        /\ (cl_in.body.readable /\ ~IsStructured(cl_in.body) =>
                /\ cl_out.code = Unknown(0)
                /\ cl_out.trace_id = None
                /\ cl_out.message = cl_in.body.raw)

C10_Witness ==
    /\ Classified
    /\ cl_in.status = 500
    /\ cl_in.body.json
    /\ cl_in.body.doc.traceId = JAbsent
    /\ cl_in.body.doc.errorCode = JInt(2999)
    /\ cl_out.code = Unknown(0)
    /\ cl_out.trace_id = None
    /\ cl_out.message = cl_in.body.raw

\* the configurations that use the default retry logic and leave attempts
\* after the first
DefaultConfigs ==
    { cfg \in Configs : cfg.retry_predicate = "none" /\ cfg.max_retries >= 2 }

\* the configurations whose retry_predicate is OdosError::is_retryable
IsRetryableConfigs ==
    { cfg \in Configs : cfg.retry_predicate = "is_retryable" /\ cfg.max_retries >= 2 }

KnownCodeApiFailure ==
    Classified /\ cl_out.variant = "Api" /\ cl_out.code.variant # "Unknown"

UnknownCodeApiFailure ==
    Classified /\ cl_out.variant = "Api" /\ cl_out.code.variant = "Unknown"

\* C15 as stated: under the default retry logic with attempts remaining, the
\* decision to retry an api failure that carries a known error code equals
\* that code's retryability flag, for every status and known code.
C15_DefaultDecisionIsCodeFlag ==
    KnownCodeApiFailure =>
        \A cfg \in DefaultConfigs :
            should_retry(cfg, cl_out, 1) = CodeIsRetryable(cl_out.code)

\* C15 as amended: for an api failure that carries a known error code,
\* is_retryable equals that code's retryability flag, and the engine applies
\* it when is_retryable is the retry_predicate; under the default retry logic
\* with attempts remaining the decision does not depend on the code: the
\* failure is retried exactly when its status is 5xx and retry_server_errors
\* is true.
C15_CodeFlagOnlyInIsRetryable ==
    KnownCodeApiFailure =>
        /\ is_retryable(cl_out) = CodeIsRetryable(cl_out.code)
        /\ \A cfg \in IsRetryableConfigs :
              should_retry(cfg, cl_out, 1) = CodeIsRetryable(cl_out.code)
        /\ \A cfg \in DefaultConfigs :
              should_retry(cfg, cl_out, 1) =
                  (is_server_error(cl_out.status) /\ cfg.retry_server_errors)

C15_Witness ==
    /\ KnownCodeApiFailure
    /\ cl_in.status = 400
    /\ cl_out.code = Known("AlgoInternal")
    /\ is_retryable(cl_out)
    /\ \A cfg \in DefaultConfigs : ~should_retry(cfg, cl_out, 1)

\* C16 as stated: for an api failure whose error code is unknown, is_retryable
\* is true exactly for the statuses 500, 502, 503 and 504, and under the
\* default retry logic a response with any other status (501 and 507
\* included) is not retried.
C16_UnknownCodeFallbackEverywhere ==
    UnknownCodeApiFailure =>
        /\ is_retryable(cl_out) = (cl_out.status \in { 500, 502, 503, 504 })
        /\ \A cfg \in DefaultConfigs :
              should_retry(cfg, cl_out, 1) => cl_out.status \in { 500, 502, 503, 504 }

\* C16 as amended: for an api failure whose error code is unknown, is_retryable
\* is true exactly for the statuses 500, 502, 503 and 504, and the engine
\* applies that verdict when is_retryable is the retry_predicate; the default
\* retry logic does not use it: with attempts remaining it retries every 5xx
\* status (501 and 507 included) when retry_server_errors is true, and no
\* status when it is false.
C16_UnknownCodeFallbackInIsRetryable ==
    UnknownCodeApiFailure =>
        /\ is_retryable(cl_out) = (cl_out.status \in { 500, 502, 503, 504 })
        /\ \A cfg \in IsRetryableConfigs :
              should_retry(cfg, cl_out, 1) = (cl_out.status \in { 500, 502, 503, 504 })
        /\ \A cfg \in DefaultConfigs :
              should_retry(cfg, cl_out, 1) =
                  (is_server_error(cl_out.status) /\ cfg.retry_server_errors)

C16_Witness ==
    /\ UnknownCodeApiFailure
    /\ cl_in.status = 501
    /\ cl_in.body = TextBody("Internal server error")
    /\ ~is_retryable(cl_out)
    /\ \A cfg \in DefaultConfigs : should_retry(cfg, cl_out, 1) = cfg.retry_server_errors

-----------------------------------------------------------------------------
(* Claims about ConcSpec *)

\* the call has handled the outcome of its latest attempt
Settled(l) == l.pc \in { "sleeping", "done" }

\* C26: under every interleaving of the calls made on one client, the attempt
\* counter of a call counts the attempts of that call alone, and two calls
\* whose attempts had the same outcomes have made the same number of attempts,
\* hold the same backoff state and have the same result.
C26_CallsIndependent ==
    pc = "calls" =>
        /\ \A c \in Calls :
              calls[c].attempt =
                 Len(calls[c].outcomes) + (IF calls[c].pc = "inflight" THEN 1 ELSE 0)
        /\ \A c, d \in Calls :
              (/\ Settled(calls[c])
               /\ Settled(calls[d])
               /\ calls[c].outcomes = calls[d].outcomes) => calls[c] = calls[d]

\* one call has returned after three attempts while the other, whose first
\* attempt had the same outcome, is in its first sleep
C26_Witness ==
    /\ pc = "calls"
    /\ calls["a"].pc = "done"
    /\ calls["a"].attempt = 3
    /\ calls["b"].pc = "sleeping"
    /\ calls["b"].attempt = 1
    /\ calls["b"].outcomes = SubSeq(calls["a"].outcomes, 1, 1)

-----------------------------------------------------------------------------
(* Claims about ErrorSpec *)

\* C27: suggested_retry_delay() returns None for every error on which
\* is_retryable() is false; the rate limit error, whose delay (retry_after,
\* else 60 s) the method documents, is left aside here.
C27_NoDelayForNonRetryable ==
    (/\ pc = "suggested"
     /\ ~is_retryable(cl_out)
     /\ cl_out.variant # "RateLimit") => ~suggested.some

=============================================================================
